---------------------------- MODULE Spec2Model ----------------------------
(* A model of packages/express-test/lib/expect-request.js: the class        *)
(* ExpectRequest, its queue of deferred assertions, the scheduler           *)
(* _assertAll, the check functions and the completion handler of finalize.  *)
(*                                                                          *)
(* JavaScript strings are sequences of one-character strings, so that       *)
(* toLowerCase, template-literal rendering and RegExp.test are computed.    *)
(* A JavaScript value that a header check sees is a record [t, v]: t is its *)
(* type tag and v its characters (a string's text, a RegExp's source).      *)
EXTENDS Integers, Sequences, FiniteSets

\* The longest queue of assertions the model builds.
MaxQueue == 3
\* The number of finalize calls the model makes on the request object.
MaxFinalize == 2

VARIABLES
    assertions,   \* this.assertions: the queue of descriptors
    given,        \* per descriptor, the field name its registration call was given
    evalCount,    \* per descriptor, how many times its fn has been invoked
    pending,      \* callbacks of the finalize calls whose transport is in flight
    sent,         \* how many requests have been sent (finalize calls made)
    lastCall,     \* the last step: the method called, whether it threw, what it returned
    completion,   \* what the completion handler the last step ran was given, if it ran one
    evalLog,      \* the descriptors (queue positions) that handler evaluated, in order
    delivered,    \* the invocations of the caller's callback by that handler
    escaped,      \* the exception that left that handler, if any
    raised,       \* message, actual and stack of the error a status check or an
                  \* expect callback of that handler threw
    matcherCalls  \* how many times that handler called snapshotManager.match

vars == <<assertions, given, evalCount, pending, sent, lastCall, completion,
          evalLog, delivered, escaped, raised, matcherCalls>>

-----------------------------------------------------------------------------
(* JavaScript values                                                        *)

Undefined == [t |-> "undefined", v |-> <<>>]
String(s) == [t |-> "string", v |-> s]
RegExp(source) == [t |-> "regexp", v |-> source]

\* String.prototype.toLowerCase on one character of the model's alphabet.
LowerChar(c) ==
    CASE c = "E" -> "e"
      [] c = "T" -> "t"
      [] c = "X" -> "x"
      [] c = "A" -> "a"
      [] OTHER -> c

ToLowerCaseIdentity(s) == s

\* String.prototype.toLowerCase.
ToLowerCase(s) == [i \in 1..Len(s) |-> LowerChar(s[i])]

\* The string a template literal renders a value to.
ToString(val) ==
    CASE val.t = "string" -> val.v
      [] val.t = "regexp" -> <<"/">> \o val.v \o <<"/">>
      [] OTHER -> <<"u", "n", "d", "e", "f", "i", "n", "e", "d">>

DigitChar(d) ==
    CASE d = 0 -> "0" [] d = 1 -> "1" [] d = 2 -> "2" [] d = 3 -> "3"
      [] d = 4 -> "4" [] d = 5 -> "5" [] d = 6 -> "6" [] d = 7 -> "7"
      [] d = 8 -> "8" [] OTHER -> "9"

\* The decimal digits a template literal renders a non-negative integer to.
RECURSIVE Decimal(_)
Decimal(n) ==
    IF n < 10 THEN <<DigitChar(n)>> ELSE Decimal(n \div 10) \o <<DigitChar(n % 10)>>

Number(n) == [t |-> "number", v |-> Decimal(n)]

IsSubstring(p, s) ==
    \E i \in 0..(Len(s) - Len(p)) : SubSeq(s, i + 1, i + Len(p)) = p

\* String.prototype.replace(pattern, replacement) with string arguments: the
\* first occurrence of pattern is replaced.
Replace(s, pattern, replacement) ==
    IF IsSubstring(pattern, s)
    THEN LET at == CHOOSE i \in 0..(Len(s) - Len(pattern)) :
                       /\ SubSeq(s, i + 1, i + Len(pattern)) = pattern
                       /\ \A j \in 0..(i - 1) :
                              SubSeq(s, j + 1, j + Len(pattern)) # pattern
         IN  SubSeq(s, 1, at) \o replacement
                 \o SubSeq(s, at + Len(pattern) + 1, Len(s))
    ELSE s

\* RegExp.prototype.test for a source of literal characters with optional
\* ^ and $ anchors.
RegExpTest(re, s) ==
    LET src == re.v
        atStart == Len(src) > 0 /\ src[1] = "^"
        atEnd == Len(src) > 0 /\ src[Len(src)] = "$"
        lit == SubSeq(src, IF atStart THEN 2 ELSE 1,
                      IF atEnd THEN Len(src) - 1 ELSE Len(src))
    IN  CASE atStart /\ atEnd -> s = lit
          [] atStart -> Len(lit) <= Len(s) /\ SubSeq(s, 1, Len(lit)) = lit
          [] atEnd -> Len(lit) <= Len(s)
                      /\ SubSeq(s, Len(s) - Len(lit) + 1, Len(s)) = lit
          [] OTHER -> IsSubstring(lit, s)

-----------------------------------------------------------------------------
(* Errors and outcomes of a call                                            *)

NoError == [kind |-> "none", id |-> 0]
\* The AssertionError _addAssertion created for the descriptor with this id.
AssertionError(id) == [kind |-> "AssertionError", id |-> id]
\* The error a callback registered with expect throws.
UserError(id) == [kind |-> "UserError", id |-> id]
TypeError == [kind |-> "TypeError", id |-> 0]
MisuseError == [kind |-> "Error", id |-> 0]
TransportError == [kind |-> "TransportError", id |-> 0]
CallbackError == [kind |-> "CallbackError", id |-> 0]

Returns == [threw |-> FALSE, error |-> NoError]
Throws(e) == [threw |-> TRUE, error |-> e]

-----------------------------------------------------------------------------
(* The response of the Request collaborator and the Snapshot Matcher        *)

\* response.headers[name]: the header's value, undefined when it has none.
HeaderLookup(headers, name) ==
    IF \E h \in headers : h[1] = name
    THEN String((CHOOSE h \in headers : h[1] = name)[2])
    ELSE Undefined

\* The property names of result[field].
FieldKeys(result, field) ==
    IF field = "body" THEN result.body.props
    ELSE {h[1] : h \in result.headers}

\* result[field][prop] == undefined, the loose comparison assert.notEqual
\* makes: the property is missing, or it is there and holds null.
PropertyNullish(result, field, prop) ==
    \/ prop \notin FieldKeys(result, field)
    \/ field = "body" /\ prop \in result.body.nulls

\* !result[field] of _assertSnapshot: the targeted field is absent.
FieldAbsent(result, field) ==
    IF field = "body" THEN ~result.body.present ELSE ~result.hasHeaders

\* A body: the names of its properties, those among them that hold null, and
\* its errors list: "none" (no errors property), "empty" ([]), "noMessage"
\* ([{}]) or "message" ([{message: ErrorText}]).
NoBody == [present |-> FALSE, props |-> {}, nulls |-> {}, errors |-> "none"]
Body(props, errors) ==
    [present |-> TRUE, props |-> props, nulls |-> {}, errors |-> errors]
BodyWithNulls(props, nulls) ==
    [present |-> TRUE, props |-> props, nulls |-> nulls, errors |-> "none"]

-----------------------------------------------------------------------------
(* The check functions                                                      *)

\* The value null, which a callback may throw as well as an error object.
Null == [kind |-> "null", id |-> 0]

\* What the user's callback of the descriptor throws when it is called.
ThrownBy(assertion) ==
    CASE assertion.callback = "throws" -> UserError(assertion.error)
      [] assertion.callback = "throwsNull" -> Null
      [] OTHER -> NoError

\* The arrow function wrapperFn of expect: it calls the user's callback and
\* rethrows what the callback throws.
WrapperFn(response, assertion) ==
    CASE assertion.callback = "throws" -> Throws(UserError(assertion.error))
      [] assertion.callback = "throwsNull" ->
             \* error is null: the assignment to error.stack throws
             Throws(TypeError)
      [] OTHER -> Returns

AssertStatus(response, assertion) ==
    IF response.body.present /\ response.body.errors = "empty"
    THEN Throws(TypeError)   \* errors[0] is undefined: reading .message throws
    ELSE IF response.statusCode = assertion.expected
         THEN Returns
         ELSE Throws(AssertionError(assertion.error))

AssertHeader(response, assertion) ==
    LET expectedField == assertion.expectedField
        expectedValue == assertion.expectedValue
        actual == HeaderLookup(response.headers, expectedField)
        expectedHeaderString ==
            expectedField \o <<":", " ">> \o ToString(expectedValue)
        actualHeaderString == expectedField \o <<":", " ">> \o ToString(actual)
    IN  IF ~response.hasHeaders
        THEN Throws(TypeError)   \* response.headers is undefined
        ELSE IF actual = Undefined
        THEN Throws(AssertionError(assertion.error))
        ELSE IF expectedValue.t = "regexp"
        THEN IF RegExpTest(expectedValue, ToString(actual))
             THEN Returns
             ELSE Throws(AssertionError(assertion.error))
        ELSE IF expectedHeaderString = actualHeaderString
             THEN Returns
             ELSE Throws(AssertionError(assertion.error))

\* A snapshot check that leaves the verdict to the Snapshot Matcher alone.
AssertSnapshotMatcherOnly(result, assertion, match) ==
    IF FieldAbsent(result, assertion.field) \/ match[assertion.field] # TRUE
    THEN Throws(AssertionError(assertion.error))
    ELSE Returns

\* match is the result of snapshotManager.match per targeted field: its pass.
AssertSnapshot(result, assertion, match) ==
    LET properties == assertion.properties
        field == assertion.field
    IN  IF FieldAbsent(result, field)
        THEN Throws(AssertionError(assertion.error))
        ELSE IF \E prop \in properties : PropertyNullish(result, field, prop)
        THEN Throws(AssertionError(assertion.error))
        ELSE IF match[field] # TRUE
        THEN Throws(AssertionError(assertion.error))
        ELSE Returns

\* assertion.fn(response, assertion)
CallFn(response, assertion, match) ==
    CASE assertion.fn = "wrapperFn" -> WrapperFn(response, assertion)
      [] assertion.fn = "_assertStatus" -> AssertStatus(response, assertion)
      [] assertion.fn = "_assertHeader" -> AssertHeader(response, assertion)
      [] OTHER -> AssertSnapshot(response, assertion, match)

-----------------------------------------------------------------------------
(* What a failing check leaves on the error it throws                       *)

\* The message _addAssertion constructs every AssertionError with.
PlaceholderMessage == <<"Unexpected assertion error">>
\* error.contextString: this.reqOptions.toString().
ContextString == <<"[request]">>
\* response.body.errors[0].message, when the body carries one.
ErrorText == <<"b", "o", "o", "m">>
\* The message of the Error a callback registered with expect throws.
UserMessage == <<"o", "o", "p", "s">>
TypeErrorMessage == <<"Cannot read properties of undefined">>

\* error.stack of the AssertionError of descriptor id: the stack captured in
\* _addAssertion, headed by the message the error was constructed with.
RegistrationStack(id) ==
    <<"AssertionError [ERR_ASSERTION]: ">> \o PlaceholderMessage
        \o <<"\n    at registration ">> \o Decimal(id)

\* error.message as _assertStatus sets it.
StatusMessage(response, assertion) ==
    <<"Expected statusCode ">> \o Decimal(assertion.expected)
        \o <<", got statusCode ">> \o Decimal(response.statusCode)
        \o <<" ">> \o ContextString
        \o (IF response.body.present /\ response.body.errors = "message"
            THEN <<"\n">> \o ErrorText
            ELSE <<>>)

NothingRaised == [message |-> <<>>, actual |-> Undefined, stack |-> <<>>]
RaisedTypeError ==
    [message |-> TypeErrorMessage, actual |-> Undefined,
     stack |-> <<"TypeError: ">> \o TypeErrorMessage]

\* The message, actual and stack of what assertion.fn throws, for a status
\* check and for wrapperFn; NothingRaised for the other checks, whose errors
\* the model does not look into, and for a check that passes.
Raised(response, assertion, match) ==
    LET outcome == CallFn(response, assertion, match)
    IN  CASE ~outcome.threw -> NothingRaised
          [] outcome.error = TypeError -> RaisedTypeError
          [] assertion.fn = "_assertStatus" ->
                 [message |-> StatusMessage(response, assertion),
                  actual |-> Number(response.statusCode),
                  stack |-> RegistrationStack(assertion.error)]
          [] assertion.fn = "wrapperFn" ->
                 [message |-> UserMessage,
                  actual |-> Undefined,
                  stack |-> Replace(RegistrationStack(assertion.error),
                                    PlaceholderMessage, UserMessage)]
          [] OTHER -> NothingRaised

\* Whether _assertSnapshot reaches its call of snapshotManager.match.
CallsMatcher(result, assertion) ==
    assertion.fn = "_assertSnapshot" /\ ~FieldAbsent(result, assertion.field)

-----------------------------------------------------------------------------
(* The scheduler                                                            *)

Ran(log) == [log |-> log, threw |-> FALSE, error |-> NoError]
Failed(log, e) == [log |-> log, threw |-> TRUE, error |-> e]

\* for (const assertion of list) { assertion.fn(response, assertion); }
\* over a list of queue positions; log holds the positions evaluated so far.
RECURSIVE RunEach(_, _, _, _, _)
RunEach(list, queue, response, match, log) ==
    IF list = <<>>
    THEN Ran(log)
    ELSE LET i == Head(list)
             r == CallFn(response, queue[i], match)
         IN  IF r.threw
             THEN Failed(Append(log, i), r.error)
             ELSE RunEach(Tail(list), queue, response, match, Append(log, i))

\* The first loop of _assertAll from position i on: a body assertion is
\* evaluated at once, the others are put aside.
RECURSIVE FirstLoop(_, _, _, _, _, _, _)
FirstLoop(i, queue, response, match, statusCodeAssertions, headerAssertions, log) ==
    IF i > Len(queue)
    THEN [threw |-> FALSE, error |-> NoError, log |-> log,
          statusCodeAssertions |-> statusCodeAssertions,
          headerAssertions |-> headerAssertions]
    ELSE IF queue[i].type = "body"
    THEN LET r == CallFn(response, queue[i], match)
         IN  IF r.threw
             THEN [threw |-> TRUE, error |-> r.error, log |-> Append(log, i),
                   statusCodeAssertions |-> statusCodeAssertions,
                   headerAssertions |-> headerAssertions]
             ELSE FirstLoop(i + 1, queue, response, match,
                            statusCodeAssertions, headerAssertions, Append(log, i))
    ELSE IF queue[i].type = "status"
    THEN FirstLoop(i + 1, queue, response, match,
                   Append(statusCodeAssertions, i), headerAssertions, log)
    ELSE FirstLoop(i + 1, queue, response, match,
                   statusCodeAssertions, Append(headerAssertions, i), log)

\* A scheduler that evaluates the queue in registration order.
AssertAllInRegistrationOrder(queue, response, match) ==
    RunEach([i \in 1..Len(queue) |-> i], queue, response, match, <<>>)

\* A scheduler that evaluates every descriptor and raises the first failure
\* at the end.
AssertAllCollect(queue, response, match) ==
    LET Positions(type) ==
            SelectSeq([i \in 1..Len(queue) |-> i], LAMBDA i : queue[i].type = type)
        order == Positions("body") \o Positions("header") \o Positions("status")
        bad == SelectSeq(order, LAMBDA i : CallFn(response, queue[i], match).threw)
    IN  IF bad = <<>>
        THEN Ran(order)
        ELSE Failed(order, CallFn(response, queue[Head(bad)], match).error)

\* _assertAll(response): the positions evaluated, in order, and the failure
\* that ended the evaluation, if any.
AssertAll(queue, response, match) ==
    LET first == FirstLoop(1, queue, response, match, <<>>, <<>>, <<>>)
    IN  IF first.threw
        THEN Failed(first.log, first.error)
        ELSE LET headers == RunEach(first.headerAssertions, queue, response,
                                    match, first.log)
             IN  IF headers.threw
                 THEN headers
                 ELSE RunEach(first.statusCodeAssertions, queue, response,
                              match, headers.log)

-----------------------------------------------------------------------------
(* The completion handler of finalize                                       *)

NoResponse ==
    [defined |-> FALSE, statusCode |-> 0, hasHeaders |-> FALSE, headers |-> {},
     body |-> NoBody]

NoMatch == [body |-> FALSE, headers |-> FALSE]

NoCompletion ==
    [done |-> FALSE, error |-> NoError, response |-> NoResponse,
     match |-> NoMatch, callback |-> "none", queue |-> <<>>]

\* One invocation of the caller's callback: callback(error) or
\* callback(null, response).
Invocation(error, response) == [error |-> error, response |-> response]

\* The caller's callback: what it throws when invoked.
CallbackThrows(callback) == callback = "throws"

\* A handler that runs the assertions whatever the transport delivered.
HandlerIgnoringTransportError(error, response, match, queue, callback) ==
    LET run == AssertAll(queue, response, match)
    IN  [log |-> run.log,
         calls |-> <<Invocation(IF error # NoError THEN error ELSE run.error,
                                NoResponse)>>,
         escaped |-> NoError]

\* A handler that forwards the response whatever the assertions found.
HandlerSwallowingFailures(error, response, match, queue, callback) ==
    [log |-> IF error # NoError THEN <<>> ELSE AssertAll(queue, response, match).log,
     calls |-> <<IF error # NoError THEN Invocation(error, NoResponse)
                 ELSE Invocation(NoError, response)>>,
     escaped |-> NoError]

\* The arrow function finalize hands to super.finalize, run on (error,
\* response): the positions evaluated, the invocations of the caller's
\* callback and the exception that leaves the handler.
Handler(error, response, match, queue, callback) ==
    IF error # NoError
    THEN [log |-> <<>>,
          calls |-> <<Invocation(error, NoResponse)>>,
          escaped |-> IF CallbackThrows(callback) THEN CallbackError ELSE NoError]
    ELSE LET run == IF Len(queue) > 0
                    THEN AssertAll(queue, response, match)
                    ELSE Ran(<<>>)
         IN  IF run.threw
             THEN \* catch (_error) { return callback(_error); }
                  [log |-> run.log,
                   calls |-> <<Invocation(run.error, NoResponse)>>,
                   escaped |-> IF CallbackThrows(callback)
                               THEN CallbackError ELSE NoError]
             ELSE IF CallbackThrows(callback)
             THEN \* callback(null, response) throws inside the try block:
                  \* the catch clause invokes the callback again
                  [log |-> run.log,
                   calls |-> <<Invocation(NoError, response),
                               Invocation(CallbackError, NoResponse)>>,
                   escaped |-> CallbackError]
             ELSE [log |-> run.log,
                   calls |-> <<Invocation(NoError, response)>>,
                   escaped |-> NoError]

-----------------------------------------------------------------------------
(* Registration                                                             *)

\* A descriptor registered without its kind tag.
DescriptorWithoutKind(fn, type) ==
    [fn |-> fn, type |-> "undefined", error |-> 0, callback |-> "none",
     expected |-> 0, expectedField |-> <<>>, expectedValue |-> Undefined,
     properties |-> {}, field |-> "none"]

\* A descriptor before _addAssertion gives it its error; the fields a
\* registration does not set hold a placeholder.
Descriptor(fn, type) ==
    [fn |-> fn, type |-> type, error |-> 0, callback |-> "none", expected |-> 0,
     expectedField |-> <<>>, expectedValue |-> Undefined, properties |-> {},
     field |-> "none"]

\* What the last step was: the public method called (or the transport's
\* completion), the typeof of its first argument, whether it threw and what,
\* and what it returned.
Called(op, argType, threw, error, returned) ==
    [op |-> op, argType |-> argType, threw |-> threw, error |-> error,
     returned |-> returned]

\* The step ran no completion handler: there is nothing to observe of one.
NoHandlerRan ==
    /\ completion' = NoCompletion
    /\ evalLog' = <<>>
    /\ delivered' = <<>>
    /\ escaped' = NoError
    /\ raised' = NothingRaised
    /\ matcherCalls' = 0

RegistrationOps ==
    {"expect", "expectStatus", "expectHeader", "matchBodySnapshot",
     "matchHeaderSnapshot"}

\* An _addAssertion that puts the descriptor at the head of the queue.
AddAssertionAtHead(assertion) ==
    /\ assertions' = <<[assertion EXCEPT !.error = Len(assertions) + 1]>> \o assertions
    /\ evalCount' = <<0>> \o evalCount

\* _addAssertion(assertion): a new AssertionError for the descriptor, named
\* by the count of errors created so far, and a push on the queue.
AddAssertion(assertion) ==
    /\ assertions' = Append(assertions, [assertion EXCEPT !.error = Len(assertions) + 1])
    /\ evalCount' = Append(evalCount, 0)

\* An expect that does not look at the type of its argument.
ExpectUnchecked(callback) ==
    /\ Len(assertions) < MaxQueue
    /\ AddAssertion([Descriptor("wrapperFn", "body") EXCEPT
                        !.callback = callback.behaviour])
    /\ lastCall' = Called("expect", callback.typeof, FALSE, NoError, "this")
    /\ given' = Append(given, <<>>)
    /\ NoHandlerRan
    /\ UNCHANGED <<pending, sent>>

Expect(callback) ==
    /\ IF callback.typeof # "function"
       THEN /\ lastCall' = Called("expect", callback.typeof, TRUE, MisuseError, "nothing")
            /\ UNCHANGED <<assertions, given, evalCount>>
       ELSE /\ Len(assertions) < MaxQueue
            /\ AddAssertion([Descriptor("wrapperFn", "body") EXCEPT
                                !.callback = callback.behaviour])
            /\ given' = Append(given, <<>>)
            /\ lastCall' = Called("expect", callback.typeof, FALSE, NoError, "this")
    /\ NoHandlerRan
    /\ UNCHANGED <<pending, sent>>

ExpectStatus(expected) ==
    /\ Len(assertions) < MaxQueue
    /\ AddAssertion([Descriptor("_assertStatus", "status") EXCEPT
                        !.expected = expected])
    /\ lastCall' = Called("expectStatus", "number", FALSE, NoError, "this")
    /\ given' = Append(given, <<>>)
    /\ NoHandlerRan
    /\ UNCHANGED <<pending, sent>>

ExpectHeader(expectedField, expectedValue) ==
    /\ Len(assertions) < MaxQueue
    /\ AddAssertion([Descriptor("_assertHeader", "header") EXCEPT
                        !.expectedField = ToLowerCase(expectedField),
                        !.expectedValue = expectedValue])
    /\ lastCall' = Called("expectHeader", "string", FALSE, NoError, "this")
    /\ given' = Append(given, expectedField)
    /\ NoHandlerRan
    /\ UNCHANGED <<pending, sent>>

MatchBodySnapshot(properties) ==
    /\ Len(assertions) < MaxQueue
    /\ AddAssertion([Descriptor("_assertSnapshot", "body") EXCEPT
                        !.properties = properties, !.field = "body"])
    /\ lastCall' = Called("matchBodySnapshot", "object", FALSE, NoError, "this")
    /\ given' = Append(given, <<>>)
    /\ NoHandlerRan
    /\ UNCHANGED <<pending, sent>>

MatchHeaderSnapshot(properties) ==
    /\ Len(assertions) < MaxQueue
    /\ AddAssertion([Descriptor("_assertSnapshot", "header") EXCEPT
                        !.properties = properties, !.field = "headers"])
    /\ lastCall' = Called("matchHeaderSnapshot", "object", FALSE, NoError, "this")
    /\ given' = Append(given, <<>>)
    /\ NoHandlerRan
    /\ UNCHANGED <<pending, sent>>

-----------------------------------------------------------------------------
(* finalize and the transport's completion                                  *)

\* finalize(callback): the request goes out; the handler waits for the
\* transport.
Finalize(callback) ==
    /\ sent < MaxFinalize
    /\ sent' = sent + 1
    /\ pending' = Append(pending, callback)
    /\ lastCall' = Called("finalize", "function", FALSE, NoError, "undefined")
    /\ NoHandlerRan
    /\ UNCHANGED <<assertions, given, evalCount>>

Occurrences(log, i) == Cardinality({k \in 1..Len(log) : log[k] = i})

\* The transport of the k-th finalize call in flight completes with (error,
\* response) and the handler runs to its end.
Complete(k, error, response, match) ==
    /\ k \in 1..Len(pending)
    /\ \E h \in {Handler(error, response, match, assertions, pending[k])} :
           /\ evalLog' = h.log
           /\ delivered' = h.calls
           /\ escaped' = h.escaped
           /\ evalCount' = [i \in 1..Len(evalCount) |->
                               evalCount[i] + Occurrences(h.log, i)]
           /\ raised' = IF h.log = <<>> THEN NothingRaised
                        ELSE Raised(response, assertions[h.log[Len(h.log)]], match)
           /\ matcherCalls' =
                  Cardinality({j \in 1..Len(h.log) :
                                  CallsMatcher(response, assertions[h.log[j]])})
    /\ completion' = [done |-> TRUE, error |-> error, response |-> response,
                      match |-> match, callback |-> pending[k],
                      queue |-> assertions]
    /\ pending' = SubSeq(pending, 1, k - 1) \o SubSeq(pending, k + 1, Len(pending))
    /\ lastCall' = Called("completion", "none", FALSE, NoError, "undefined")
    /\ UNCHANGED <<assertions, given, sent>>

CompleteWithError(k) == Complete(k, TransportError, NoResponse, NoMatch)

CompleteWithResponse(k, response, match) == Complete(k, NoError, response, match)

-----------------------------------------------------------------------------
(* The inputs of the model                                                  *)

\* The strings of the model.
Et == <<"E", "t">>
et == <<"e", "t">>
Id == <<"i", "d">>
TextA == <<"a">>
TextB == <<"b">>

Function(behaviour) == [typeof |-> "function", behaviour |-> behaviour]
NotAFunction == [typeof |-> "number", behaviour |-> "none"]

ExpectArguments == {Function("returns"), Function("throws"), NotAFunction}
StatusCodes == {200, 404}
Callbacks == {"returns", "throws"}

Response(statusCode, hasHeaders, headers, body) ==
    [defined |-> TRUE, statusCode |-> statusCode, hasHeaders |-> hasHeaders,
     headers |-> headers, body |-> body]

HeaderObjects == {<<TRUE, {}>>, <<TRUE, {<<et, TextA>>}>>}
Bodies == {NoBody, Body({Id}, "none")}
Responses ==
    {Response(c, h[1], h[2], b) : c \in StatusCodes, h \in HeaderObjects, b \in Bodies}
Matches == [body : BOOLEAN, headers : BOOLEAN]

Init ==
    /\ assertions = <<>>
    /\ given = <<>>
    /\ evalCount = <<>>
    /\ pending = <<>>
    /\ sent = 0
    /\ lastCall = Called("constructor", "none", FALSE, NoError, "this")
    /\ completion = NoCompletion
    /\ evalLog = <<>>
    /\ delivered = <<>>
    /\ escaped = NoError
    /\ raised = NothingRaised
    /\ matcherCalls = 0

\* One exchange per request object: registrations at any time, one finalize
\* call, one completion of its transport. SpecRefinalize below calls finalize
\* again on the same object.
Next ==
    \/ \E callback \in ExpectArguments : Expect(callback)
    \/ ExpectStatus(200)
    \/ ExpectHeader(Et, String(TextA))
    \/ MatchBodySnapshot({Id})
    \/ MatchHeaderSnapshot({})
    \/ \E callback \in Callbacks : sent = 0 /\ Finalize(callback)
    \/ \E k \in 1..Len(pending) : CompleteWithError(k)
    \/ \E k \in 1..Len(pending), response \in Responses, match \in Matches :
           CompleteWithResponse(k, response, match)

Spec == Init /\ [][Next]_vars

-----------------------------------------------------------------------------
(* Vocabulary of the properties                                             *)

\* A completion handler has just run on a response (the transport succeeded).
RanOnResponse == completion.done /\ completion.error = NoError

\* Whether the check of the descriptor at position i of the handler's queue
\* fails against the response the handler was given.
Fails(i) ==
    CallFn(completion.response, completion.queue[i], completion.match).threw

FailureOf(i) ==
    CallFn(completion.response, completion.queue[i], completion.match).error

KindOf(i) == completion.queue[i].type

\* The positions of a queue of one kind, in registration order.
PositionsOfKind(queue, kind) ==
    SelectSeq([i \in 1..Len(queue) |-> i], LAMBDA i : queue[i].type = kind)

\* The fixed order: body kind, then header kind, then status kind, each in
\* registration order.
FixedOrder(queue) ==
    PositionsOfKind(queue, "body") \o PositionsOfKind(queue, "header")
        \o PositionsOfKind(queue, "status")

Evaluated(i) == \E k \in 1..Len(evalLog) : evalLog[k] = i

\* The place of position i in the evaluation log.
PlaceOf(i) == CHOOSE k \in 1..Len(evalLog) : evalLog[k] = i

-----------------------------------------------------------------------------
(* C1 - ordering                                                            *)

\* C1: in one finalize call no header-kind descriptor is evaluated before a
\* body-kind descriptor that is evaluated later, and no status-kind
\* descriptor before a body-kind or header-kind one evaluated later; when a
\* header-kind descriptor is evaluated every body-kind descriptor of the
\* queue has been evaluated before it, and when a status-kind descriptor is
\* evaluated every body-kind and header-kind descriptor has been.
C1_BodyHeaderStatusOrder ==
    completion.done =>
        /\ \A j, k \in 1..Len(evalLog) :
               j < k =>
                   /\ ~(KindOf(evalLog[j]) = "header" /\ KindOf(evalLog[k]) = "body")
                   /\ ~(KindOf(evalLog[j]) = "status"
                        /\ KindOf(evalLog[k]) \in {"body", "header"})
        /\ \A k \in 1..Len(evalLog), i \in 1..Len(completion.queue) :
               \/ KindOf(evalLog[k]) = "header" /\ KindOf(i) = "body"
               \/ KindOf(evalLog[k]) = "status" /\ KindOf(i) \in {"body", "header"}
               => Evaluated(i) /\ PlaceOf(i) < k

\* A status-kind descriptor registered first is evaluated last, after a
\* header-kind and a body-kind descriptor registered after it.
C1_Witness ==
    /\ completion.done
    /\ Len(completion.queue) = 3
    /\ KindOf(1) = "status" /\ KindOf(2) = "header" /\ KindOf(3) = "body"
    /\ evalLog = <<3, 2, 1>>

-----------------------------------------------------------------------------
(* C2 - fail-fast                                                           *)

\* C2: once the check of a descriptor fails during a finalize call, it is the
\* last one evaluated in that call, and every descriptor that follows it in
\* the fixed order stays unevaluated.
C2_FailFast ==
    RanOnResponse =>
        LET order == FixedOrder(completion.queue)
        IN  /\ \A k \in 1..Len(evalLog) : Fails(evalLog[k]) => k = Len(evalLog)
            /\ \A a, b \in 1..Len(order) :
                   a < b /\ Evaluated(order[a]) /\ Fails(order[a])
                   => ~Evaluated(order[b])

\* The first descriptor evaluated fails and the two others of the queue are
\* never evaluated.
C2_Witness ==
    /\ RanOnResponse
    /\ Len(completion.queue) = 3
    /\ Len(evalLog) = 1
    /\ Fails(evalLog[1])
    /\ \E i \in 1..3 : ~Evaluated(i) /\ ~Fails(i)

-----------------------------------------------------------------------------
(* C3 - error XOR response                                                  *)

\* C3: over a whole finalize call exactly one of (error, response) is
\* delivered to the caller's callback: no invocation carries both or
\* neither, and the call does not deliver an error as well as a response.
C3_ExactlyOneOfErrorAndResponse ==
    completion.done =>
        LET errors == {k \in 1..Len(delivered) : delivered[k].error # NoError}
            responses == {k \in 1..Len(delivered) : delivered[k].response.defined}
        IN  /\ \A k \in 1..Len(delivered) : (k \in errors) # (k \in responses)
            /\ (errors # {}) # (responses # {})

-----------------------------------------------------------------------------
(* C4 - transport error                                                     *)

\* C4: when the transport completes with an error the caller's callback is
\* invoked with that same error and no descriptor is evaluated.
C4_TransportErrorForwarded ==
    completion.done /\ completion.error # NoError =>
        /\ evalLog = <<>>
        /\ delivered = <<Invocation(completion.error, NoResponse)>>

\* The transport failed under a queue of three descriptors.
C4_Witness ==
    /\ completion.done
    /\ completion.error = TransportError
    /\ Len(completion.queue) = 3
    /\ delivered[1].error = TransportError

-----------------------------------------------------------------------------
(* C5 - response or failure                                                 *)

\* C5: when the transport succeeds the callback is invoked with the response
\* and no error if and only if the queue is empty or every queued check
\* passes; if a queued check fails the callback receives a failure of the
\* queue and never the response.
C5_ResponseIffAllPass ==
    RanOnResponse =>
        LET allPass == \A i \in 1..Len(completion.queue) : ~Fails(i)
            gotResponse ==
                \E k \in 1..Len(delivered) :
                    delivered[k] = Invocation(NoError, completion.response)
        IN  /\ gotResponse <=> allPass
            /\ allPass => delivered[1] = Invocation(NoError, completion.response)
            /\ ~allPass =>
                   /\ \A k \in 1..Len(delivered) : ~delivered[k].response.defined
                   /\ \E i \in 1..Len(completion.queue) :
                          Fails(i) /\ delivered = <<Invocation(FailureOf(i), NoResponse)>>

\* A queue of three descriptors whose last evaluated check fails: the
\* callback receives its failure.
C5_Witness ==
    /\ RanOnResponse
    /\ Len(completion.queue) = 3
    /\ Len(evalLog) = 3
    /\ Fails(evalLog[3])
    /\ delivered = <<Invocation(FailureOf(evalLog[3]), NoResponse)>>

-----------------------------------------------------------------------------
(* C6 - the first failure in the fixed order                                *)

\* C6: when some queued check fails against the response, the callback is
\* invoked once, with the failure of the first failing descriptor in the
\* fixed order.
C6_FirstFailureInFixedOrder ==
    RanOnResponse /\ (\E i \in 1..Len(completion.queue) : Fails(i)) =>
        LET order == FixedOrder(completion.queue)
            first == CHOOSE a \in 1..Len(order) :
                         /\ Fails(order[a])
                         /\ \A b \in 1..(a - 1) : ~Fails(order[b])
        IN  delivered = <<Invocation(FailureOf(order[first]), NoResponse)>>

\* Two descriptors fail; the one registered first is of status kind and the
\* failure delivered is that of the body-kind one registered after it.
C6_Witness ==
    /\ RanOnResponse
    /\ Len(completion.queue) >= 2
    /\ KindOf(1) = "status" /\ Fails(1)
    /\ KindOf(2) = "body" /\ Fails(2)
    /\ delivered = <<Invocation(FailureOf(2), NoResponse)>>
    /\ FailureOf(2) # FailureOf(1)

-----------------------------------------------------------------------------
(* C7 - registration appends                                                *)

\* C7: every registration call that returns normally appends exactly one
\* descriptor at the end of the queue, leaves the descriptors queued before
\* and their positions unchanged, evaluates no check and returns the request
\* object.
C7_RegistrationAppendsOne ==
    [][lastCall'.op \in RegistrationOps /\ ~lastCall'.threw =>
           /\ Len(assertions') = Len(assertions) + 1
           /\ SubSeq(assertions', 1, Len(assertions)) = assertions
           /\ assertions'[Len(assertions')].error
                  \notin {assertions[i].error : i \in 1..Len(assertions)}
           /\ evalCount' = Append(evalCount, 0)
           /\ evalLog' = <<>>
           /\ delivered' = <<>>
           /\ lastCall'.returned = "this"]_vars

\* A header expectation registered as the third descriptor, after the first
\* two have been evaluated by a finalize call.
C7_Witness ==
    /\ lastCall.op = "expectHeader"
    /\ ~lastCall.threw
    /\ Len(assertions) = 3
    /\ assertions[3].fn = "_assertHeader"
    /\ evalCount = <<1, 1, 0>>

-----------------------------------------------------------------------------
(* C8 - misuse of expect                                                    *)

\* C8: expect called with an argument that is not a function throws the
\* misuse error in the call itself, sends no request, and leaves the queue
\* as it was.
C8_ExpectRejectsNonCallable ==
    [][lastCall'.op = "expect" /\ lastCall'.argType # "function" =>
           /\ lastCall'.threw
           /\ lastCall'.error = MisuseError
           /\ assertions' = assertions
           /\ evalCount' = evalCount
           /\ sent' = sent
           /\ pending' = pending
           /\ ~completion'.done]_vars

\* expect was called with a number while two descriptors were queued and no
\* request had been sent.
C8_Witness ==
    /\ lastCall.op = "expect"
    /\ lastCall.argType = "number"
    /\ lastCall.threw
    /\ Len(assertions) = 2
    /\ sent = 0

-----------------------------------------------------------------------------
(* C9 - at most one evaluation                                              *)

\* finalize called again on the same request object, up to MaxFinalize
\* times: the queue is the one the registrations built.
NextRefinalize ==
    \/ Expect(Function("returns"))
    \/ ExpectStatus(200)
    \/ Finalize("returns")
    \/ \E k \in 1..Len(pending) : CompleteWithError(k)
    \/ \E k \in 1..Len(pending), statusCode \in StatusCodes :
           CompleteWithResponse(k, Response(statusCode, TRUE, {}, NoBody), NoMatch)

SpecRefinalize == Init /\ [][NextRefinalize]_vars

\* C9: after any sequence of registration calls and finalize calls, no
\* descriptor's check function has been invoked more than once.
C9_EvaluatedAtMostOnce ==
    \A i \in 1..Len(evalCount) : evalCount[i] <= 1

-----------------------------------------------------------------------------
(* C10 - the header check                                                   *)

X == <<"X">>
x == <<"x">>
TextAB == <<"a", "b">>

FieldNames == {Et, et, X}
ExpectedValues == {String(TextA), RegExp(TextA), RegExp(<<"^", "a", "$">>)}
\* Header objects keyed by lower-case names, and a response without headers.
LowerCaseHeaderObjects ==
    {<<TRUE, {}>>, <<TRUE, {<<et, TextA>>}>>, <<TRUE, {<<et, TextAB>>}>>,
     <<TRUE, {<<et, TextB>>}>>, <<TRUE, {<<x, TextA>>}>>,
     <<TRUE, {<<et, TextA>>, <<x, TextAB>>}>>, <<FALSE, {}>>}

\* Header expectations of every letter case and value kind, evaluated
\* against the header objects above.
NextHeader ==
    \/ \E expectedField \in FieldNames, expectedValue \in ExpectedValues :
           ExpectHeader(expectedField, expectedValue)
    \/ sent = 0 /\ Finalize("returns")
    \/ \E k \in 1..Len(pending), h \in LowerCaseHeaderObjects :
           CompleteWithResponse(k, Response(200, h[1], h[2], NoBody), NoMatch)

SpecHeader == Init /\ [][NextHeader]_vars

\* The upper-case and lower-case forms of the letters of the model.
LetterCases == {<<"E", "e">>, <<"T", "t">>, <<"X", "x">>, <<"A", "a">>}

\* Two names that differ at most in the case of their letters.
SameIgnoringCase(a, b) ==
    /\ Len(a) = Len(b)
    /\ \A i \in 1..Len(a) :
           \/ a[i] = b[i]
           \/ <<a[i], b[i]>> \in LetterCases
           \/ <<b[i], a[i]>> \in LetterCases

\* The check evaluated at place k of the log failed: it ended the evaluation
\* and the callback received an error.
FailedAt(k) == k = Len(evalLog) /\ delivered[1].error # NoError

\* C10: a header check registered under a field name of any letter case,
\* evaluated against a response whose headers are keyed by lower-case names,
\* fails if the response has no header of that name; otherwise, with a
\* RegExp as expected value it passes iff the RegExp matches the header's
\* value, and with a literal it passes iff "field: expected" and
\* "field: actual" are the same string.
C10_HeaderCheck ==
    RanOnResponse /\ completion.response.hasHeaders =>
        \A k \in 1..Len(evalLog) :
            LET assertion == completion.queue[evalLog[k]]
                field == given[evalLog[k]]
                headers == completion.response.headers
                present == \E h \in headers : SameIgnoringCase(field, h[1])
                header == CHOOSE h \in headers : SameIgnoringCase(field, h[1])
                expected == assertion.expectedValue
            IN  assertion.fn = "_assertHeader" =>
                    /\ ~present => FailedAt(k)
                    /\ present /\ expected.t = "regexp" =>
                           (~FailedAt(k) <=> RegExpTest(expected, header[2]))
                    /\ present /\ expected.t # "regexp" =>
                           (~FailedAt(k) <=>
                                header[1] \o <<":", " ">> \o ToString(expected)
                                    = header[1] \o <<":", " ">> \o header[2])

\* expectHeader('Et', 'a') passes against a response with header et: a.
C10_Witness ==
    /\ RanOnResponse
    /\ completion.response.headers = {<<et, TextA>>}
    /\ Len(completion.queue) = 1
    /\ given[1] = Et
    /\ completion.queue[1].expectedValue = String(TextA)
    /\ evalLog = <<1>>
    /\ delivered = <<Invocation(NoError, completion.response)>>

-----------------------------------------------------------------------------
(* C11 - the message of a status mismatch                                   *)

\* The shapes of body the transport may deliver to a status check.
StatusBodies ==
    {NoBody, Body({}, "none"), Body({}, "empty"), Body({}, "noMessage"),
     Body({}, "message")}

\* Status expectations evaluated against every status code and body shape.
NextStatus ==
    \/ \E expected \in StatusCodes : ExpectStatus(expected)
    \/ sent = 0 /\ Finalize("returns")
    \/ \E k \in 1..Len(pending), statusCode \in StatusCodes, body \in StatusBodies :
           CompleteWithResponse(k, Response(statusCode, TRUE, {}, body), NoMatch)

SpecStatus == Init /\ [][NextStatus]_vars

\* C11: a status check evaluated against a response whose status code is not
\* the expected one fails with its descriptor's error; the message of that
\* error contains the expected and the actual code, its actual is the
\* response's status code, and when the body holds errors[0].message the
\* message contains it too.
C11_StatusMismatchMessage ==
    RanOnResponse =>
        \A k \in 1..Len(evalLog) :
            LET assertion == completion.queue[evalLog[k]]
                response == completion.response
            IN  assertion.fn = "_assertStatus"
                /\ response.statusCode # assertion.expected =>
                    /\ FailedAt(k)
                    /\ delivered[1].error = AssertionError(assertion.error)
                    /\ IsSubstring(Decimal(assertion.expected), raised.message)
                    /\ IsSubstring(Decimal(response.statusCode), raised.message)
                    /\ raised.actual = Number(response.statusCode)
                    /\ (response.body.present /\ response.body.errors = "message"
                        => IsSubstring(ErrorText, raised.message))

-----------------------------------------------------------------------------
(* C12 - a property named in the mapping is absent                          *)

SnapshotProperties == {{}, {Id}}
HeaderSnapshotProperties == {{}, {et}}
\* Bodies without and with the property id, and one whose id holds null.
SnapshotBodies ==
    {NoBody, Body({}, "none"), Body({Id}, "none"), BodyWithNulls({Id}, {Id})}
SnapshotHeaderObjects == {<<FALSE, {}>>, <<TRUE, {}>>, <<TRUE, {<<et, TextA>>}>>}

\* Snapshot checks with and without a properties mapping, evaluated against
\* every shape of body and headers and every verdict of the Snapshot Matcher.
NextSnapshot ==
    \/ \E properties \in SnapshotProperties : MatchBodySnapshot(properties)
    \/ \E properties \in HeaderSnapshotProperties : MatchHeaderSnapshot(properties)
    \/ sent = 0 /\ Finalize("returns")
    \/ \E k \in 1..Len(pending), h \in SnapshotHeaderObjects,
          body \in SnapshotBodies, match \in Matches :
           CompleteWithResponse(k, Response(200, h[1], h[2], body), match)

SpecSnapshot == Init /\ [][NextSnapshot]_vars

\* C12: a snapshot check whose mapping names a property that the targeted
\* field's value does not have fails, whatever the Snapshot Matcher answers.
C12_MissingPropertyFails ==
    RanOnResponse =>
        \A k \in 1..Len(evalLog) :
            LET assertion == completion.queue[evalLog[k]]
            IN  assertion.fn = "_assertSnapshot"
                /\ (\E prop \in assertion.properties :
                        prop \notin FieldKeys(completion.response, assertion.field))
                => FailedAt(k)

\* matchBodySnapshot({id: ...}) fails against a body without id although the
\* Snapshot Matcher answers pass = true.
C12_Witness ==
    /\ RanOnResponse
    /\ Len(completion.queue) = 1
    /\ completion.queue[1].fn = "_assertSnapshot"
    /\ completion.queue[1].field = "body"
    /\ completion.queue[1].properties = {Id}
    /\ completion.response.body = Body({}, "none")
    /\ completion.match.body
    /\ evalLog = <<1>>
    /\ delivered = <<Invocation(AssertionError(1), NoResponse)>>

-----------------------------------------------------------------------------
(* C13 - the callback of expect throws                                      *)

\* Callbacks that return, that throw an error object and that throw null.
ThrowingArguments ==
    {Function("returns"), Function("throws"), Function("throwsNull")}

NextCallback ==
    \/ \E callback \in ThrowingArguments : Expect(callback)
    \/ sent = 0 /\ Finalize("returns")
    \/ \E k \in 1..Len(pending) : CompleteWithError(k)
    \/ \E k \in 1..Len(pending), statusCode \in StatusCodes, body \in Bodies :
           CompleteWithResponse(k, Response(statusCode, TRUE, {}, body), NoMatch)

SpecCallback == Init /\ [][NextCallback]_vars

\* C13: when the callback registered with expect throws while it is
\* evaluated, the check fails and the caller's callback receives the very
\* value the user callback threw, with its message kept and its stack replaced
\* by the registration-time stack, for every kind of value thrown.
C13_ThrownValueDelivered ==
    RanOnResponse =>
        \A k \in 1..Len(evalLog) :
            LET assertion == completion.queue[evalLog[k]]
            IN  assertion.fn = "wrapperFn" /\ ThrownBy(assertion) # NoError =>
                    /\ FailedAt(k)
                    /\ delivered[1].error = ThrownBy(assertion)
                    /\ ThrownBy(assertion) = UserError(assertion.error) =>
                           /\ raised.message = UserMessage
                           /\ raised.stack =
                                  Replace(RegistrationStack(assertion.error),
                                          PlaceholderMessage, UserMessage)

-----------------------------------------------------------------------------
(* C14 - the evaluation order when every check passes                       *)

\* C14: when every check passes, the descriptors evaluated by one finalize
\* call are the body-kind descriptors in registration order, then the
\* header-kind ones in registration order, then the status-kind ones in
\* registration order, and each queued descriptor is evaluated exactly once.
C14_StablePartitionWhenAllPass ==
    RanOnResponse /\ (\A i \in 1..Len(completion.queue) : ~Fails(i)) =>
        /\ evalLog = FixedOrder(completion.queue)
        /\ \A i \in 1..Len(completion.queue) : Occurrences(evalLog, i) = 1

\* A status check, a body check and a header check registered in this order
\* all pass and are evaluated body first, header second, status last.
C14_Witness ==
    /\ RanOnResponse
    /\ Len(completion.queue) = 3
    /\ KindOf(1) = "status" /\ KindOf(2) = "body" /\ KindOf(3) = "header"
    /\ \A i \in 1..3 : ~Fails(i)
    /\ evalLog = <<2, 3, 1>>
    /\ delivered = <<Invocation(NoError, completion.response)>>

-----------------------------------------------------------------------------
(* C15 - the verdict of the status check                                    *)

\* C15: a status check passes if and only if the status code of the response
\* equals the expected code, whether the response has no body, a body without
\* an errors list, a body with an empty errors list, or a body whose first
\* errors entry has or lacks a message.
C15_StatusPassesIffEqual ==
    RanOnResponse =>
        \A k \in 1..Len(evalLog) :
            LET assertion == completion.queue[evalLog[k]]
            IN  assertion.fn = "_assertStatus" =>
                    (~FailedAt(k)
                        <=> completion.response.statusCode = assertion.expected)

-----------------------------------------------------------------------------
(* C16 - the verdict of the snapshot check                                  *)

\* C16: a snapshot check passes if and only if the targeted field of the
\* response is present, the field's value has every property named in the
\* mapping, and the Snapshot Matcher answers pass = true; a check whose
\* targeted field is absent fails without calling the Snapshot Matcher.
C16_SnapshotPassesIff ==
    RanOnResponse =>
        /\ \A k \in 1..Len(evalLog) :
               LET assertion == completion.queue[evalLog[k]]
                   result == completion.response
               IN  assertion.fn = "_assertSnapshot" =>
                       (~FailedAt(k)
                           <=> /\ ~FieldAbsent(result, assertion.field)
                               /\ assertion.properties
                                      \subseteq FieldKeys(result, assertion.field)
                               /\ completion.match[assertion.field])
        /\ matcherCalls =
               Cardinality({k \in 1..Len(evalLog) :
                   /\ completion.queue[evalLog[k]].fn = "_assertSnapshot"
                   /\ ~FieldAbsent(completion.response,
                                   completion.queue[evalLog[k]].field)})

-----------------------------------------------------------------------------
(* C17 - one error object per descriptor                                    *)

\* C17: every queued descriptor holds the error object created by its own
\* registration, never another descriptor's nor a later one, and when a
\* status, header or snapshot check fails the caller's callback receives the
\* failing descriptor's registration-time error object.
C17_OwnErrorDelivered ==
    /\ \A i \in 1..Len(assertions) : assertions[i].error = i
    /\ RanOnResponse =>
           \A k \in 1..Len(evalLog) :
               LET assertion == completion.queue[evalLog[k]]
               IN  /\ assertion.error = evalLog[k]
                   /\ assertion.fn \in {"_assertStatus", "_assertHeader",
                                        "_assertSnapshot"}
                      /\ FailedAt(k)
                      => delivered[1].error = AssertionError(assertion.error)

-----------------------------------------------------------------------------
(* C18 - one invocation of the caller's callback per completion             *)

\* C18: for one completion of the transport the caller's callback is invoked
\* exactly once, whatever the callback does when it is invoked, also when it
\* throws while it handles the success outcome.
C18_CallbackInvokedOnce ==
    completion.done => Len(delivered) = 1

-----------------------------------------------------------------------------
(* C19 - the kinds of the queued descriptors                                *)

Kinds == {"body", "header", "status"}

\* Whether the first loop of the scheduler takes its last else branch for
\* some descriptor of the queue.
FallbackTaken(queue) == \E i \in 1..Len(queue) : queue[i].type \notin Kinds

\* C19: after any sequence of the five registration operations every queued
\* descriptor has kind body, header or status, so no run of the scheduler
\* takes the fallback branch for a descriptor of another or of no kind.
C19_EveryDescriptorHasKind ==
    /\ \A i \in 1..Len(assertions) : assertions[i].type \in Kinds
    /\ completion.done => ~FallbackTaken(completion.queue)

\* A header check, a body snapshot and a status check are queued and the
\* scheduler has sorted and evaluated all three.
C19_Witness ==
    /\ RanOnResponse
    /\ Len(completion.queue) = 3
    /\ completion.queue[1].fn = "_assertHeader" /\ KindOf(1) = "header"
    /\ completion.queue[2].fn = "_assertSnapshot" /\ KindOf(2) = "body"
    /\ completion.queue[3].fn = "_assertStatus" /\ KindOf(3) = "status"
    /\ evalLog = <<2, 1, 3>>

=============================================================================
